---- MODULE Spec2Model ----
(***************************************************************************)
(* Expense tracker (src/app.py): users, the expense ledger, the dashboard  *)
(* aggregation, the budget alert sent after an expense is recorded, and    *)
(* the paginated PDF report.                                               *)
(*                                                                         *)
(* Money is counted in units of 0.002 (a fifth of a cent), so that amounts *)
(* finer than a cent exist and round(x, 2) is a real rounding: with five   *)
(* units to the cent no value lies exactly halfway between two cents.      *)
(* Float arithmetic is modelled by exact arithmetic on these units.        *)
(***************************************************************************)
EXTENDS Integers, Sequences, FiniteSets

VARIABLES users, ledger, session, today, resp, req

vars == <<users, ledger, session, today, resp, req>>

----------------------------------------------------------------------------
(* Bounds of the model *)

MaxExpenses == 3
NumReq == 2
MaxReportRows == 60

(* Inputs the requests are drawn from *)

Emails == {"a@x", "b@x"}
Amounts == {-1, 5}
Budgets == {-5, 0, 5}
CategoryFields == {"No expenses", "absent"}
GatewayOutcomes == {"unconfigured", "smtp_error", "sent"}

(* Program constants *)

CentUnits == 5
ROW_LIMIT == 50
TOP_Y == 750
HEADER_STEP == 30
LINE_STEP == 20
BOTTOM_Y == 50

NoUser == 0
NoResponse == [op |-> "none"]
Idle == [pc |-> "idle", amount |-> 0, expense_id |-> 0, budget |-> 0, total_spent |-> 0,
         handed |-> 0, mail |-> "none", status |-> "none"]

----------------------------------------------------------------------------
(* Arithmetic helpers *)

Min(a, b) == IF a < b THEN a ELSE b

\* Python round(): nearest integer multiple, an exact half going to the even one.
RoundHalfEven(n, d) ==
    LET q == n \div d
        r == n % d
    IN  IF 2 * r < d THEN q
        ELSE IF 2 * r > d THEN q + 1
        ELSE IF q % 2 = 0 THEN q ELSE q + 1

\* round(x, 2): to whole cents.
Round2(x) == RoundHalfEven(x, CentUnits) * CentUnits

RECURSIVE SumSeq(_)
SumSeq(s) == IF s = <<>> THEN 0 ELSE Head(s) + SumSeq(Tail(s))

----------------------------------------------------------------------------
(* The record store *)

\* User(email=..., password=...): budget takes the column default 0.0.
NewUser(email) == [email |-> email, budget |-> 0]

\* User.query.filter_by(email=email).first(): the id, or NoUser.
FindByEmail(email) ==
    IF \E i \in 1..Len(users) : users[i].email = email
    THEN CHOOSE i \in 1..Len(users) : users[i].email = email
    ELSE NoUser

\* request.form.get('category', 'Other')
FormCategory(field) == IF field = "absent" THEN "Other" ELSE field

\* Expense(user_id=current_user.id, amount=..., category=...), date defaulting to today.
NewExpense(uid, amount, category, day) ==
    [user_id |-> uid, amount |-> amount, category |-> category, date |-> day]

db_add_overwrite(table, row) ==
    IF table = <<>> THEN <<row>> ELSE [table EXCEPT ![Len(table)] = row]

\* db.session.add(row); db.session.commit(): one new row, the primary key the next index.
db_add(table, row) == Append(table, row)

filter_by_any_user(table, uid) == table

\* Expense.query.filter_by(user_id=uid).all(), in insertion order.
filter_by_user(table, uid) == SelectSeq(table, LAMBDA e : e.user_id = uid)

RECURSIVE AmountsOf(_)
AmountsOf(exps) ==
    IF exps = <<>> THEN <<>> ELSE <<Head(exps).amount>> \o AmountsOf(Tail(exps))

sum_query_stale(table, uid) ==
    LET mine == filter_by_user(table, uid)
    IN  IF mine = <<>> THEN 0 ELSE SumSeq(AmountsOf(SubSeq(mine, 1, Len(mine) - 1)))

\* db.session.query(db.func.sum(Expense.amount)).filter_by(user_id=uid).scalar() or 0
sum_query(table, uid) == SumSeq(AmountsOf(filter_by_user(table, uid)))

----------------------------------------------------------------------------
(* Budget alert policy *)

AlertDue_strict(budget, total_spent) ==
    /\ budget > 0
    /\ 5 * (budget - total_spent) < budget

AlertDue_unguarded(budget, total_spent) ==
    /\ budget >= 0
    /\ 5 * (budget - total_spent) <= budget

\* current_user.budget and current_user.budget > 0 and remaining / budget <= 0.20
AlertDue(budget, total_spent) ==
    /\ budget > 0
    /\ 5 * (budget - total_spent) <= budget

send_email_raising(outcome) ==
    IF outcome = "unconfigured" THEN "False"
    ELSE IF outcome = "sent" THEN "True"
    ELSE "raise"

\* send_email: False when MAIL_SERVER is unset, True when the SMTP dialogue went
\* through, and False when any step of it raised (the exception is caught).
send_email(outcome) ==
    IF outcome = "unconfigured" THEN "False"
    ELSE IF outcome = "sent" THEN "True"
    ELSE "False"

\* What the add-expense request answers: the redirect, unless the alert step raised.
AddStatus(mail) == IF mail = "raise" THEN "error" ELSE "redirect"

----------------------------------------------------------------------------
(* Aggregation for the dashboard *)

\* cat[e.category] += e.amount on an insertion-ordered dict, kept as a sequence of
\* <<key, total>> pairs.
DictAdd(cat, k, v) ==
    IF \E i \in 1..Len(cat) : cat[i][1] = k
    THEN [i \in 1..Len(cat) |-> IF cat[i][1] = k THEN <<k, cat[i][2] + v>> ELSE cat[i]]
    ELSE Append(cat, <<k, v>>)

RECURSIVE CategoryTotals(_, _)
CategoryTotals(exps, cat) ==
    IF exps = <<>> THEN cat
    ELSE CategoryTotals(Tail(exps), DictAdd(cat, Head(exps).category, Head(exps).amount))

DictGet(cat, k) ==
    IF \E i \in 1..Len(cat) : cat[i][1] = k
    THEN cat[CHOOSE i \in 1..Len(cat) : cat[i][1] = k][2]
    ELSE 0

CategoryList_bare(cat) == [i \in 1..Len(cat) |-> cat[i][1]]

\* list(cat.keys()) or ['No expenses']
CategoryList(cat) ==
    IF cat = <<>> THEN <<"No expenses">> ELSE [i \in 1..Len(cat) |-> cat[i][1]]

\* [round(cat[k], 2) for k in categories]; a missing key reads as 0.0 (defaultdict).
ValueList(cat, categories) ==
    [i \in 1..Len(categories) |-> Round2(DictGet(cat, categories[i]))]

\* round(total_spent / budget * 100, 1) if budget > 0 else 0, in tenths of a percent.
PercentUsed(total_spent, budget) ==
    IF budget > 0 THEN RoundHalfEven(1000 * total_spent, budget) ELSE 0

DashboardPage(uid) ==
    LET expenses == filter_by_user(ledger, uid)
        cat == CategoryTotals(expenses, <<>>)
        categories == CategoryList(cat)
        values == ValueList(cat, categories)
        total_spent == SumSeq(values)
        budget == users[uid].budget
    IN  [op |-> "dashboard", user |-> uid, status |-> "page",
         categories |-> categories, values |-> values,
         total_spent |-> total_spent, budget |-> budget,
         remaining |-> budget - total_spent,
         percent_used |-> PercentUsed(total_spent, budget)]

----------------------------------------------------------------------------
(* Report renderer *)

\* The primary keys of a user's expenses, oldest first.
ExpenseIds(table, uid) ==
    SelectSeq([i \in 1..Len(table) |-> i], LAMBDA i : table[i].user_id = uid)

\* The place of row ids[j] in date-descending order: behind every newer row and
\* every row of its own date recorded before it (rows of one date come out in
\* insertion order, as SQLite returns them).
DateRank(table, ids, j) ==
    1 + Cardinality({k \in 1..Len(ids) :
                        \/ table[ids[k]].date > table[ids[j]].date
                        \/ table[ids[k]].date = table[ids[j]].date /\ k < j})

\* .order_by(Expense.date.desc())
OrderByDateDesc(table, ids) ==
    [p \in 1..Len(ids) |-> ids[CHOOSE j \in 1..Len(ids) : DateRank(table, ids, j) = p]]

limit_none(rows, n) == rows

\* .limit(50)
limit(rows, n) == SubSeq(rows, 1, Min(n, Len(rows)))

\* p.showPage(): the lines drawn so far become a page of the document.
showPage(pages, page) == Append(pages, page)

\* p.drawString(50, y, text); the text of an expense line stands for the row it prints.
drawString(page, y, text) == Append(page, [y |-> y, text |-> text])

\* for e in expenses: draw the line, step down, break the page below the margin.
RECURSIVE DrawRows(_, _, _, _)
DrawRows(rows, y, page, pages) ==
    IF rows = <<>> THEN [pages |-> pages, page |-> page]
    ELSE LET drawn == drawString(page, y, [kind |-> "expense", row |-> Head(rows)])
             ny == y - LINE_STEP
         IN  IF ny < BOTTOM_Y
             THEN DrawRows(Tail(rows), TOP_Y, <<>>, showPage(pages, drawn))
             ELSE DrawRows(Tail(rows), ny, drawn, pages)

\* export_pdf: two header lines, the rows, and the closing showPage.
RenderReport(rows) ==
    LET title == drawString(<<>>, TOP_Y, [kind |-> "title", row |-> 0])
        dated == drawString(title, TOP_Y - HEADER_STEP, [kind |-> "date", row |-> 0])
        body == DrawRows(rows, TOP_Y - HEADER_STEP - HEADER_STEP, dated, <<>>)
    IN  showPage(body.pages, body.page)

ReportRows(uid) ==
    limit(OrderByDateDesc(ledger, ExpenseIds(ledger, uid)), ROW_LIMIT)

----------------------------------------------------------------------------
(* Initial state: an empty database, nobody logged in *)

Init ==
    /\ users = <<>>
    /\ ledger = <<>>
    /\ session = NoUser
    /\ today = 1
    /\ resp = NoResponse
    /\ req = [r \in 1..NumReq |-> Idle]

----------------------------------------------------------------------------
(* Request handlers, each a whole request *)

\* POST /register
Register(email) ==
    /\ IF FindByEmail(email) # NoUser
       THEN /\ resp' = [op |-> "register", status |-> "duplicate"]
            /\ users' = users
       ELSE /\ users' = db_add(users, NewUser(email))
            /\ resp' = [op |-> "register", status |-> "created"]
    /\ UNCHANGED <<ledger, session, today, req>>

\* POST /login; password_ok is the outcome of check_password_hash.
Login(email, password_ok) ==
    /\ IF FindByEmail(email) # NoUser /\ password_ok
       THEN /\ session' = FindByEmail(email)
            /\ resp' = [op |-> "login", status |-> "redirect"]
       ELSE /\ session' = session
            /\ resp' = [op |-> "login", status |-> "invalid"]
    /\ UNCHANGED <<users, ledger, today, req>>

\* @login_required on a request without a logged-in user (logout, dashboard,
\* set_budget, export_pdf): the same redirect to the login view, nothing touched.
LoginRequired ==
    /\ session = NoUser
    /\ resp' = [op |-> "unauthorized", status |-> "login_required"]
    /\ UNCHANGED <<users, ledger, session, today, req>>

\* GET /logout
Logout ==
    /\ session # NoUser
    /\ session' = NoUser
    /\ resp' = [op |-> "logout", status |-> "redirect"]
    /\ UNCHANGED <<users, ledger, today, req>>

\* The alert step of POST /dashboard, lines 124-131: the ways it can go. The gateway
\* is consulted, and can fail, only when the alert is due.
AlertStep(budget, total_spent) ==
    IF AlertDue(budget, total_spent)
    THEN {[handed |-> 1, mail |-> send_email(outcome)] : outcome \in GatewayOutcomes}
    ELSE {[handed |-> 0, mail |-> "none"]}

\* POST /dashboard with an amount float() accepts.
AddExpense(amount, field) ==
    /\ session # NoUser
    /\ Len(ledger) < MaxExpenses
    /\ ledger' = db_add(ledger, NewExpense(session, amount, FormCategory(field), today))
    /\ \E alert \in AlertStep(users[session].budget, sum_query(ledger', session)) :
          resp' = [op |-> "add_expense", user |-> session,
                   status |-> AddStatus(alert.mail),
                   handed |-> alert.handed, mail |-> alert.mail]
    /\ UNCHANGED <<users, session, today, req>>

\* POST /dashboard or /set_budget with a number float() rejects: ValueError, no write.
BadNumber(op) ==
    /\ session # NoUser
    /\ resp' = [op |-> op, user |-> session, status |-> "value_error"]
    /\ UNCHANGED <<users, ledger, session, today, req>>

\* GET /dashboard
Dashboard ==
    /\ session # NoUser
    /\ resp' = DashboardPage(session)
    /\ UNCHANGED <<users, ledger, session, today, req>>

\* POST /set_budget
SetBudget(b) ==
    /\ session # NoUser
    /\ users' = [users EXCEPT ![session].budget = b]
    /\ resp' = [op |-> "set_budget", user |-> session, status |-> "redirect"]
    /\ UNCHANGED <<ledger, session, today, req>>

\* GET /export_pdf
ExportPdf ==
    /\ session # NoUser
    /\ resp' = [op |-> "export_pdf", user |-> session, status |-> "file",
                pages |-> RenderReport(ReportRows(session))]
    /\ UNCHANGED <<users, ledger, session, today, req>>

Next ==
    \/ \E email \in Emails : Register(email)
    \/ \E email \in Emails, password_ok \in BOOLEAN : Login(email, password_ok)
    \/ LoginRequired
    \/ Logout
    \/ \E amount \in Amounts, field \in CategoryFields : AddExpense(amount, field)
    \/ \E op \in {"add_expense", "set_budget"} : BadNumber(op)
    \/ Dashboard
    \/ \E b \in Budgets : SetBudget(b)
    \/ ExportPdf

Spec == Init /\ [][Next]_vars

----------------------------------------------------------------------------
(* Concurrent add-expense requests of one logged-in user: POST /dashboard taken *)
(* statement by statement, the requests interleaving at the database accesses. *)

InitConc ==
    /\ \E b \in Budgets : users = <<[email |-> "a@x", budget |-> b]>>
    /\ \E before \in {<<>>, <<NewExpense(1, 5, "Other", 1)>>} : ledger = before
    /\ session = 1
    /\ today = 1
    /\ resp = NoResponse
    /\ req = [r \in 1..NumReq |-> [Idle EXCEPT !.pc = "start"]]

\* Lines 117-122: the expense is added and committed.
PostExpense(r, amount, field) ==
    /\ req[r].pc = "start"
    /\ ledger' = db_add(ledger, NewExpense(session, amount, FormCategory(field), today))
    /\ req' = [req EXCEPT ![r].pc = "committed", ![r].amount = amount,
                          ![r].expense_id = Len(ledger')]
    /\ UNCHANGED <<users, session, today, resp>>

\* Line 124: current_user.budget is loaded afresh after the commit; without a
\* positive budget the request ends here.
ReadBudget(r) ==
    /\ req[r].pc = "committed"
    /\ LET b == users[session].budget
       IN  req' = [req EXCEPT ![r].budget = b,
                              ![r].pc = IF b > 0 THEN "budget_read" ELSE "done",
                              ![r].status = IF b > 0 THEN "none" ELSE AddStatus("none")]
    /\ UNCHANGED <<users, ledger, session, today, resp>>

\* Line 125: the sum over the user's committed expenses.
ReadTotal(r) ==
    /\ req[r].pc = "budget_read"
    /\ req' = [req EXCEPT ![r].total_spent = sum_query(ledger, session),
                          ![r].pc = "total_read"]
    /\ UNCHANGED <<users, ledger, session, today, resp>>

\* Lines 126-132: the threshold test, the gateway call, the redirect.
Alert(r) ==
    /\ req[r].pc = "total_read"
    /\ \E alert \in AlertStep(req[r].budget, req[r].total_spent) :
          req' = [req EXCEPT ![r].handed = alert.handed, ![r].mail = alert.mail,
                             ![r].status = AddStatus(alert.mail), ![r].pc = "done"]
    /\ UNCHANGED <<users, ledger, session, today, resp>>

NextConc ==
    \/ \E r \in 1..NumReq, amount \in Amounts, field \in CategoryFields :
          PostExpense(r, amount, field)
    \/ \E r \in 1..NumReq : ReadBudget(r)
    \/ \E r \in 1..NumReq : ReadTotal(r)
    \/ \E r \in 1..NumReq : Alert(r)

SpecConc == InitConc /\ [][NextConc]_vars

----------------------------------------------------------------------------
(* The report of a ledger of any length up to MaxReportRows *)

\* n expenses of user 1 recorded after k of user 2, the later half of them on the
\* current day.
LedgerOf(k, n, day) ==
    [i \in 1..(k + n) |->
        IF i <= k THEN NewExpense(2, 5, "Other", 1)
        ELSE NewExpense(1, 5, "Other", IF 2 * (i - k) > n THEN day ELSE 1)]

InitExport ==
    /\ users = <<NewUser("a@x"), NewUser("b@x")>>
    /\ \E k \in 0..1, n \in 0..MaxReportRows, day \in 1..2 :
          /\ ledger = LedgerOf(k, n, day)
          /\ today = day
    /\ session \in {1, 2}
    /\ resp = NoResponse
    /\ req = [r \in 1..NumReq |-> Idle]

NextExport == ExportPdf

SpecExport == InitExport /\ [][NextExport]_vars

----------------------------------------------------------------------------
(* What the properties are stated in: the ledger read directly *)

OwnedBy(uid) == {i \in 1..Len(ledger) : ledger[i].user_id = uid}

RECURSIVE AmountOver(_)
AmountOver(S) ==
    IF S = {} THEN 0
    ELSE LET i == CHOOSE x \in S : TRUE IN ledger[i].amount + AmountOver(S \ {i})

LedgerTotal(uid) == AmountOver(OwnedBy(uid))

Abs(x) == IF x < 0 THEN -x ELSE x

Range(f) == {f[i] : i \in DOMAIN f}

AddAnswered == resp.op = "add_expense" /\ resp.status # "value_error"

----------------------------------------------------------------------------
\* C1: an add-expense request hands exactly one notification to the gateway when
\* the user's budget is positive and (budget - total) / budget <= 0.20, the total
\* being the ledger sum with the new expense in it, and none otherwise; overspend
\* alerts, and an earlier alert suppresses nothing.
C1_AlertExactlyWhenDue ==
    AddAnswered =>
        LET b == users[resp.user].budget
            t == LedgerTotal(resp.user)
        IN  resp.handed = IF b > 0 /\ 5 * (b - t) <= b THEN 1 ELSE 0

\* The second of two qualifying expenses in a row, the budget overspent: it alerts too.
C1_Witness ==
    /\ AddAnswered
    /\ resp.handed = 1
    /\ LET b == users[resp.user].budget
           t == LedgerTotal(resp.user)
           last == ledger[Len(ledger)].amount
       IN  /\ Cardinality(OwnedBy(resp.user)) >= 2
           /\ t > b
           /\ 5 * (b - (t - last)) <= b

\* C2: a failing gateway leaves the add-expense request as it is without one: its
\* expense is in the ledger and it answers with the redirect; and the gateway is
\* called only once the expense is committed.
C2_GatewayFailureHarmless ==
    \A r \in 1..NumReq :
        LET mine == req[r].expense_id
            recorded == /\ mine \in 1..Len(ledger)
                        /\ ledger[mine].user_id = session
                        /\ ledger[mine].amount = req[r].amount
        IN  /\ req[r].handed = 1 => recorded
            /\ req[r].pc = "done" => recorded /\ req[r].status = "redirect"

\* A request that called the gateway, was refused, and finished.
C2_Witness ==
    \E r \in 1..NumReq :
        req[r].pc = "done" /\ req[r].handed = 1 /\ req[r].mail = "False"

\* C3: with a budget of 0 the dashboard shows percentUsed 0 and an add-expense
\* request hands nothing to the gateway, whatever has been spent.
C3_ZeroBudgetSilent ==
    /\ (resp.op = "dashboard" /\ users[resp.user].budget = 0) => resp.percent_used = 0
    /\ (AddAnswered /\ users[resp.user].budget = 0) => resp.handed = 0

\* An expense recorded with budget 0 and money already spent.
C3_Witness ==
    /\ AddAnswered
    /\ users[resp.user].budget = 0
    /\ LedgerTotal(resp.user) >= 5
    /\ resp.handed = 0

\* C4 as claimed: the category totals of the dashboard add up to exactly the sum of
\* the user's expense amounts.
C4_TotalsSumExactly ==
    resp.op = "dashboard" =>
        /\ SumSeq(resp.values) = LedgerTotal(resp.user)
        /\ resp.total_spent = LedgerTotal(resp.user)

\* C4 as amended: every expense of the user, and no other, is counted in exactly one
\* category; each category total is that category's sum rounded to the cent;
\* totalSpent is the sum of the rounded totals, within half a cent per category of
\* the sum of the amounts and equal to it when every amount is whole cents.
C4_TotalsPartition ==
    resp.op = "dashboard" =>
        LET mine == OwnedBy(resp.user)
            cats == resp.categories
            InCat(p) == {i \in mine : ledger[i].category = cats[p]}
        IN  /\ \A i \in mine :
                   Cardinality({p \in 1..Len(cats) : cats[p] = ledger[i].category}) = 1
            /\ Len(resp.values) = Len(cats)
            /\ \A p \in 1..Len(cats) :
                   /\ resp.values[p] % CentUnits = 0
                   /\ 2 * Abs(resp.values[p] - AmountOver(InCat(p))) <= CentUnits
            /\ resp.total_spent = SumSeq(resp.values)
            /\ 2 * Abs(resp.total_spent - LedgerTotal(resp.user)) <= CentUnits * Len(cats)
            /\ (\A i \in mine : ledger[i].amount % CentUnits = 0)
                   => resp.total_spent = LedgerTotal(resp.user)

\* Two categories of one user, an expense of another user, and a rounded total.
C4_Witness ==
    /\ resp.op = "dashboard"
    /\ Len(resp.categories) = 2
    /\ \E i \in 1..Len(ledger) : ledger[i].user_id # resp.user
    /\ resp.total_spent # LedgerTotal(resp.user)

FirstSeen(uid, k) ==
    CHOOSE i \in OwnedBy(uid) :
        /\ ledger[i].category = k
        /\ \A j \in OwnedBy(uid) : ledger[j].category = k => i <= j

ListedInFirstSeenOrder ==
    LET mine == OwnedBy(resp.user)
        cats == resp.categories
    IN  /\ Range(cats) = {ledger[i].category : i \in mine}
        /\ \A p, q \in 1..Len(cats) :
               p < q => FirstSeen(resp.user, cats[p]) < FirstSeen(resp.user, cats[q])

EmptyDashboard ==
    /\ resp.categories = <<"No expenses">>
    /\ resp.values = <<0>>
    /\ resp.total_spent = 0

\* C5 as claimed: without expenses the dashboard lists the single placeholder with
\* value 0 and totalSpent 0; with expenses the categories come in first-seen order
\* and the placeholder label is not among them.
C5_PlaceholderNeverWithExpenses ==
    resp.op = "dashboard" =>
        IF OwnedBy(resp.user) = {} THEN EmptyDashboard
        ELSE ListedInFirstSeenOrder /\ "No expenses" \notin Range(resp.categories)

\* C5 as amended: without expenses the dashboard lists the single placeholder with
\* value 0 and totalSpent 0; with expenses the list is exactly the labels of the
\* user's expenses in first-seen order, nothing added (the label of the placeholder
\* is listed only when an expense carries it).
C5_PlaceholderOnlyAdded ==
    resp.op = "dashboard" =>
        IF OwnedBy(resp.user) = {} THEN EmptyDashboard ELSE ListedInFirstSeenOrder

\* A dashboard of a user without expenses while the ledger holds another user's.
C5_Witness ==
    /\ resp.op = "dashboard"
    /\ OwnedBy(resp.user) = {}
    /\ ledger # <<>>
    /\ resp.categories = <<"No expenses">>

----------------------------------------------------------------------------
(* The lines of a rendered report *)

Places(pages) ==
    UNION {{<<p, l>> : l \in 1..Len(pages[p])} : p \in 1..Len(pages)}

HeaderPlaces(pages) == {x \in Places(pages) : pages[x[1]][x[2]].text.kind # "expense"}

BodyPlaces(pages) == {x \in Places(pages) : pages[x[1]][x[2]].text.kind = "expense"}

\* C6: the report of a user with N expenses has exactly 2 header lines and
\* min(N, 50) body lines, each an expense of the user drawn once, every line at a
\* height of its own within the margins of its page; with N = 60 that is at most
\* 50 body lines on at least 2 pages.
C6_ReportLines ==
    resp.op = "export_pdf" =>
        LET pages == resp.pages
            n == Cardinality(OwnedBy(resp.user))
            body == BodyPlaces(pages)
        IN  /\ HeaderPlaces(pages) = {<<1, 1>>, <<1, 2>>}
            /\ Cardinality(body) = Min(n, ROW_LIMIT)
            /\ \A x \in body : pages[x[1]][x[2]].text.row \in OwnedBy(resp.user)
            /\ \A x, z \in body :
                   pages[x[1]][x[2]].text.row = pages[z[1]][z[2]].text.row => x = z
            /\ \A x \in Places(pages) :
                   /\ pages[x[1]][x[2]].y >= BOTTOM_Y
                   /\ pages[x[1]][x[2]].y <= TOP_Y
                   /\ x[2] > 1 => pages[x[1]][x[2]].y < pages[x[1]][x[2] - 1].y
            /\ n = 0 => Cardinality(Places(pages)) = 2
            /\ n = 60 => Cardinality(body) <= 50 /\ Len(pages) >= 2

\* The report of 60 expenses.
C6_Witness ==
    /\ resp.op = "export_pdf"
    /\ Cardinality(OwnedBy(resp.user)) = 60
    /\ Cardinality(BodyPlaces(resp.pages)) = 50
    /\ Len(resp.pages) >= 2

\* C7: every stored budget is non-negative.
C7_BudgetNonNegative == \A u \in 1..Len(users) : users[u].budget >= 0

\* C8: the ledger only grows: an answered add-expense request appends one record,
\* owned by the requesting, existing user, below which nothing changes; every other
\* request leaves the ledger as it is; every record belongs to an existing user.
C8_LedgerAppendOnly ==
    [][/\ IF resp'.op = "add_expense" /\ resp'.status # "value_error"
          THEN /\ Len(ledger') = Len(ledger) + 1
               /\ SubSeq(ledger', 1, Len(ledger)) = ledger
               /\ ledger'[Len(ledger')].user_id = resp'.user
               /\ resp'.user = session
          ELSE ledger' = ledger
       /\ \A i \in 1..Len(ledger') : ledger'[i].user_id \in 1..Len(users')]_vars

\* Records of both users in the ledger when a request other than add-expense is answered.
C8_Witness ==
    /\ resp.op = "set_budget"
    /\ OwnedBy(1) # {}
    /\ OwnedBy(2) # {}

\* C9: when concurrent add-expense requests of one user with a fixed positive
\* budget have all finished and the ledger total then satisfies
\* (budget - total) / budget <= 0.20, one of them has handed a notification to the
\* gateway; each request's total was read from a ledger holding its own expense.
C9_CrossingNeverMissed ==
    LET b == users[session].budget
        TotalOfFirst(n) == AmountOver({i \in OwnedBy(session) : i <= n})
    IN  /\ \A r \in 1..NumReq :
               req[r].pc = "total_read" =>
                   \E n \in req[r].expense_id..Len(ledger) :
                       req[r].total_spent = TotalOfFirst(n)
        /\ ( /\ \A r \in 1..NumReq : req[r].pc = "done"
             /\ b > 0
             /\ 5 * (b - LedgerTotal(session)) <= b )
           => \E r \in 1..NumReq : req[r].handed = 1

\* All finished over the threshold, one request having read a total below it.
C9_Witness ==
    /\ \A r \in 1..NumReq : req[r].pc = "done"
    /\ users[session].budget > 0
    /\ 5 * (users[session].budget - LedgerTotal(session)) <= users[session].budget
    /\ \E r \in 1..NumReq : req[r].handed = 0
    /\ \E r \in 1..NumReq : req[r].handed = 1

\* C10: every page of a report carries at least one line.
C10_NoEmptyPage ==
    resp.op = "export_pdf" =>
        \A p \in 1..Len(resp.pages) : Len(resp.pages[p]) >= 1

====
